---- MODULE Spec2Model ----
(***************************************************************************)
(* Model of src/dashboard.py: the climate dashboard script.                *)
(*                                                                         *)
(* The script is re-executed from top to bottom on every widget change.    *)
(* The state is the loaded table, the widget values and the tables and     *)
(* numbers the last execution derived from them.                           *)
(*                                                                         *)
(* Numbers: a temperature is an integer count of tenths of a degree (the   *)
(* slider's step, line 79).  A float that may be NaN is a sequence: <<>>   *)
(* is NaN and <<v>> is the number v.  A mean is a reduced fraction         *)
(* <<num, den>> of tenths, or <<>> for NaN.  Every comparison with NaN is  *)
(* false, as in pandas.                                                    *)
(***************************************************************************)
EXTENDS Integers, Sequences, FiniteSets

VARIABLES
    data,                       \* line 14: the wide table, a sequence of records
    melted_data,                \* lines 21-28: the long table
    date_range,                 \* line 34: <<start year, end year>>
    selected_countries,         \* line 40
    selected_indicator,         \* line 46
    slider_min,                 \* line 78: min_value handed to the slider
    slider_max,                 \* line 78: max_value handed to the slider
    initial_temperature_range,  \* line 76: value handed to the slider
    temperature_range,          \* line 78: what the slider returns
    filtered_data,              \* line 81: the final filtered view
    stats,                      \* lines 90-94: the five displayed texts
    aggregated_data             \* line 126

vars == <<data, melted_data, date_range, selected_countries, selected_indicator,
          slider_min, slider_max, initial_temperature_range, temperature_range,
          filtered_data, stats, aggregated_data>>

----------------------------------------------------------------------------
(* Bounds *)

\* most records in a loaded table
MaxRecords == 2

----------------------------------------------------------------------------
(* Floats with NaN, fractions *)

NaN == <<>>

Num(v) == <<v>>

IsNaN(x) == x = <<>>

Val(x) == x[1]

\* a >= b on floats: false when either side is NaN
Ge(a, b) == ~IsNaN(a) /\ ~IsNaN(b) /\ Val(a) >= Val(b)

Le(a, b) == ~IsNaN(a) /\ ~IsNaN(b) /\ Val(a) <= Val(b)

Abs(n) == IF n < 0 THEN -n ELSE n

RECURSIVE Gcd(_, _)
Gcd(a, b) == IF b = 0 THEN a ELSE Gcd(b, a % b)

\* n/d, d > 0, in lowest terms
Frac(n, d) ==
    LET g == Gcd(Abs(n), d)
    IN  IF n = 0 THEN <<0, 1>> ELSE <<n \div g, d \div g>>

RECURSIVE SumSeq(_)
SumSeq(s) == IF s = <<>> THEN 0 ELSE Head(s) + SumSeq(Tail(s))

RECURSIVE SumSq(_)
SumSq(s) == IF s = <<>> THEN 0 ELSE Head(s) * Head(s) + SumSq(Tail(s))

SeqMin(s) == CHOOSE m \in {s[i] : i \in DOMAIN s} : \A i \in DOMAIN s : m <= s[i]

SeqMax(s) == CHOOSE m \in {s[i] : i \in DOMAIN s} : \A i \in DOMAIN s : m >= s[i]

\* s without its first occurrence of v
RECURSIVE RemoveOne(_, _)
RemoveOne(s, v) ==
    IF s = <<>> THEN <<>>
    ELSE IF Head(s) = v THEN Tail(s)
    ELSE <<Head(s)>> \o RemoveOne(Tail(s), v)

RECURSIVE SortSeq(_)
SortSeq(s) ==
    IF s = <<>> THEN <<>>
    ELSE LET m == SeqMin(s) IN <<m>> \o SortSeq(RemoveOne(s, m))

----------------------------------------------------------------------------
(* The input file *)

Digits == {"0", "1", "2", "3", "4", "5", "6", "7", "8", "9"}

DigitChars == <<"0", "1", "2", "3", "4", "5", "6", "7", "8", "9">>

DigitVal(c) == CHOOSE v \in 0..9 : DigitChars[v + 1] = c

\* the value columns of the file, in file order; a label is a sequence of characters
ValueColumns == << <<"F", "2", "0", "2", "0">>, <<"F", "2", "0", "2", "1">> >>

NACell == <<"N", "A">>

\* the cell texts of the tables explored
CellTexts == <<NACell, <<"0", ".", "1">>, <<"0", ".", "2">>>>

\* the mapping of lines 108-113
actual_region_mapping ==
    [c \in {"Afghanistan, Islamic Rep. of", "Albania", "Algeria"} |->
        CASE c = "Afghanistan, Islamic Rep. of" -> "Asia"
          [] c = "Albania" -> "Europe"
          [] c = "Algeria" -> "Africa"]

\* the (Country, Indicator) pairs of the tables explored: a country of the
\* mapping under two indicators and a country outside it
RecordKeys ==
    << <<"Albania", "Temperature change">>,
       <<"Albania", "Surface temperature">>,
       <<"Andorra", "Temperature change">> >>

RawRecord(i, c, ind, cells) ==
    [ObjectId |-> i, Country |-> c, Indicator |-> ind, cells |-> cells]

RECURSIVE Power(_, _)
Power(b, e) == IF e = 0 THEN 1 ELSE b * Power(b, e - 1)

\* the record contents explored, numbered from 0: every pair of RecordKeys with
\* every row of cell texts
NumShapes == Len(RecordKeys) * Power(Len(CellTexts), Len(ValueColumns))

ShapeCountry(s) == RecordKeys[(s % Len(RecordKeys)) + 1][1]

ShapeIndicator(s) == RecordKeys[(s % Len(RecordKeys)) + 1][2]

ShapeCells(s) ==
    [c \in 1..Len(ValueColumns) |->
        CellTexts[((s \div (Len(RecordKeys) * Power(Len(CellTexts), c - 1)))
                      % Len(CellTexts)) + 1]]

\* the tables read_csv may return: 1 .. MaxRecords records, ObjectId = position.
\* No derived table depends on the order of the file's records other than in its
\* own row order, so the records are taken in the order of their numbers.
Tables ==
    UNION {{[i \in 1..n |->
               RawRecord(i, ShapeCountry(t[i]), ShapeIndicator(t[i]), ShapeCells(t[i]))] :
              t \in {u \in [1..n -> 0..(NumShapes - 1)] :
                        \A i \in 1..(n - 1) : u[i] <= u[i + 1]}} :
           n \in 1..MaxRecords}

----------------------------------------------------------------------------
(* Reshaper, lines 21-28 *)

\* pd.melt: one row per (value column, record), column by column
Melt(d) ==
    [k \in 1..(Len(d) * Len(ValueColumns)) |->
        LET col == ((k - 1) \div Len(d)) + 1
            rec == ((k - 1) % Len(d)) + 1
        IN  [ObjectId |-> d[rec].ObjectId,
             Country |-> d[rec].Country,
             Indicator |-> d[rec].Indicator,
             Year |-> ValueColumns[col],
             Temp |-> d[rec].cells[col]]]

RECURSIVE DigitRun(_, _, _)
\* the value of the maximal digit run of label starting at i, acc so far
DigitRun(label, i, acc) ==
    IF i > Len(label) \/ label[i] \notin Digits THEN acc
    ELSE DigitRun(label, i + 1, 10 * acc + DigitVal(label[i]))

\* .str.extract('(\d+)').astype(float): the first digit run, NaN when there is none
ExtractYear(label) ==
    LET pos == {i \in DOMAIN label : label[i] \in Digits}
    IN  IF pos = {} THEN NaN
        ELSE Num(DigitRun(label, CHOOSE i \in pos : \A j \in pos : i <= j, 0))

AllDigits(s) == s # <<>> /\ \A i \in DOMAIN s : s[i] \in Digits

\* pd.to_numeric(errors='coerce') on a cell text, in tenths: [-]digits[.digit];
\* anything else is NaN
ToNumeric(cell) ==
    LET neg  == cell # <<>> /\ Head(cell) = "-"
        body == IF neg THEN Tail(cell) ELSE cell
        dots == {i \in DOMAIN body : body[i] = "."}
        sign == IF neg THEN -1 ELSE 1
    IN  IF dots = {} THEN
            IF AllDigits(body) THEN Num(sign * 10 * DigitRun(body, 1, 0)) ELSE NaN
        ELSE LET p    == CHOOSE i \in dots : TRUE
                 int  == SubSeq(body, 1, p - 1)
                 frac == SubSeq(body, p + 1, Len(body))
             IN  IF Cardinality(dots) = 1 /\ AllDigits(int) /\ AllDigits(frac)
                    /\ Len(frac) = 1
                 THEN Num(sign * (10 * DigitRun(int, 1, 0) + DigitVal(frac[1])))
                 ELSE NaN

\* lines 21-28 followed by drop_duplicates(['Country', 'Indicator', 'Year'])
Reshape_DropDuplicates(d) ==
    LET m == Melt(d)
        same(k, j) == /\ m[k].Country = m[j].Country
                      /\ m[k].Indicator = m[j].Indicator
                      /\ m[k].Year = m[j].Year
        first == {k \in DOMAIN m : \A j \in 1..(k - 1) : ~same(k, j)}
        RECURSIVE keep(_)
        keep(k) == IF k > Len(m) THEN <<>>
                   ELSE (IF k \in first THEN <<m[k]>> ELSE <<>>) \o keep(k + 1)
    IN  [k \in DOMAIN keep(1) |->
            [keep(1)[k] EXCEPT !.Year = ExtractYear(keep(1)[k].Year),
                               !.Temp = ToNumeric(keep(1)[k].Temp)]]

\* lines 21-28 together
Reshape(d) ==
    LET m == Melt(d)
    IN  [k \in DOMAIN m |->
            [m[k] EXCEPT !.Year = ExtractYear(m[k].Year), !.Temp = ToNumeric(m[k].Temp)]]

\* .unique() of a column, as a set
Unique(view, col) == {view[k][col] : k \in DOMAIN view}

----------------------------------------------------------------------------
(* Filter engine, lines 37-81 *)

\* line 37 with the end year left out
FilterByDate_ExclusiveEnd(view, dr) ==
    SelectSeq(view, LAMBDA r : Ge(r.Year, Num(dr[1])) /\ Le(r.Year, Num(dr[2] - 1)))

\* line 37
FilterByDate(view, dr) ==
    SelectSeq(view, LAMBDA r : Ge(r.Year, Num(dr[1])) /\ Le(r.Year, Num(dr[2])))

\* line 43 with an empty selection read as no restriction
FilterByCountries_EmptyMeansAll(view, sel) ==
    IF sel = {} THEN view ELSE SelectSeq(view, LAMBDA r : r.Country \in sel)

\* line 43
FilterByCountries(view, sel) ==
    SelectSeq(view, LAMBDA r : r.Country \in sel)

\* line 47 indexing melted_data instead of filtered_data
FilterByIndicator_FromFullTable(view, ind) ==
    SelectSeq(melted_data, LAMBDA r : r.Indicator = ind)

\* line 47
FilterByIndicator(view, ind) ==
    SelectSeq(view, LAMBDA r : r.Indicator = ind)

\* line 81 keeping the rows without a value
FilterByTemperature_KeepMissing(view, tr) ==
    SelectSeq(view, LAMBDA r : IsNaN(r.Temp) \/ (Ge(r.Temp, tr[1]) /\ Le(r.Temp, tr[2])))

\* line 81
FilterByTemperature(view, tr) ==
    SelectSeq(view, LAMBDA r : Ge(r.Temp, tr[1]) /\ Le(r.Temp, tr[2]))

\* the non-NaN values of the Temperature Change column
RECURSIVE ValidTemps(_)
ValidTemps(view) ==
    IF view = <<>> THEN <<>>
    ELSE (IF IsNaN(Head(view).Temp) THEN <<>> ELSE <<Val(Head(view).Temp)>>)
         \o ValidTemps(Tail(view))

\* Series.min(): NaN skipped, NaN when nothing is left
ColMin(view) ==
    LET v == ValidTemps(view) IN IF v = <<>> THEN NaN ELSE Num(SeqMin(v))

\* Series.max()
ColMax(view) ==
    LET v == ValidTemps(view) IN IF v = <<>> THEN NaN ELSE Num(SeqMax(v))

\* lines 67-76 reading the column of melted_data instead of filtered_data
InitialTemperatureRange_FromFullTable(view) ==
    LET lo == ColMin(melted_data)
        hi == ColMax(melted_data)
    IN  IF IsNaN(lo) \/ IsNaN(hi) THEN <<Num(0), Num(10)>>
        ELSE IF Val(lo) <= Val(hi) THEN <<lo, hi>> ELSE <<hi, lo>>

\* lines 67-76: the value handed to the slider
InitialTemperatureRange(view) ==
    LET lo == ColMin(view)
        hi == ColMax(view)
    IN  IF IsNaN(lo) \/ IsNaN(hi) THEN <<Num(0), Num(10)>>
        ELSE IF Val(lo) <= Val(hi) THEN <<lo, hi>> ELSE <<hi, lo>>

\* lines 37-47
UpstreamView(md, dr, sc, si) ==
    FilterByIndicator(FilterByCountries(FilterByDate(md, dr), sc), si)

----------------------------------------------------------------------------
(* Statistics, lines 90-94 *)

\* Series.mean()
ColMean(view) ==
    LET v == ValidTemps(view)
    IN  IF v = <<>> THEN NaN ELSE Frac(SumSeq(v), Len(v))

\* Series.median()
ColMedian(view) ==
    LET v == SortSeq(ValidTemps(view))
        n == Len(v)
    IN  IF n = 0 THEN NaN
        ELSE IF n % 2 = 1 THEN Frac(v[(n + 1) \div 2], 1)
        ELSE Frac(v[n \div 2] + v[(n \div 2) + 1], 2)

\* Series.std(), ddof = 1, kept as its square: NaN with fewer than two values
ColStd(view) ==
    LET v == ValidTemps(view)
        n == Len(v)
    IN  IF n < 2 THEN NaN
        ELSE Frac(n * SumSq(v) - SumSeq(v) * SumSeq(v), n * (n - 1))

\* f"{x}" of a float: the text nan for NaN, the number otherwise
Fmt(x) ==
    IF IsNaN(x) THEN [text |-> "nan", value |-> NaN]
    ELSE [text |-> "number", value |-> x]

Statistics(view) ==
    [mean   |-> Fmt(ColMean(view)),
     median |-> Fmt(ColMedian(view)),
     std    |-> Fmt(ColStd(view)),
     max    |-> Fmt(ColMax(view)),
     min    |-> Fmt(ColMin(view))]

----------------------------------------------------------------------------
(* Region mapper and aggregator, lines 108-126 *)

\* line 116: Series.map(dict), NaN for a key the dict lacks
MapRegion(country) ==
    IF country \in DOMAIN actual_region_mapping
    THEN <<actual_region_mapping[country]>> ELSE NaN

WithAggregated(view) ==
    [k \in DOMAIN view |->
        [ObjectId |-> view[k].ObjectId, Country |-> view[k].Country,
         Indicator |-> view[k].Indicator, Year |-> view[k].Year,
         Temp |-> view[k].Temp, Aggregated |-> MapRegion(view[k].Country)]]

\* lines 119-123 with a missing value counted as zero
custom_mean_MissingAsZero(series) ==
    IF series = <<>> THEN NaN ELSE Frac(SumSeq(ValidTemps(series)), Len(series))

\* lines 119-123: the column is float already, so to_numeric never raises
custom_mean(series) == ColMean(series)

\* groupby(..., dropna=False): rows with a NaN key keep their group
GroupKeys_KeepMissing(view) ==
    {<<view[k].Aggregated, view[k].Year>> : k \in DOMAIN view}

\* groupby(['Aggregated', 'Year']): the group keys; rows with a NaN key are left out
GroupKeys(view) ==
    {<<view[k].Aggregated, view[k].Year>> :
        k \in {j \in DOMAIN view : ~IsNaN(view[j].Aggregated) /\ ~IsNaN(view[j].Year)}}

\* line 126: the table keyed by (Aggregated, Year)
Aggregate(view) ==
    LET v == WithAggregated(view)
    IN  [key \in GroupKeys(v) |->
            custom_mean(SelectSeq(v, LAMBDA r : r.Aggregated = key[1] /\ r.Year = key[2]))]

----------------------------------------------------------------------------
(* One execution of the script *)

\* what lines 67-126 derive from the view of line 47 and the slider's value
Derived(view3, tr) ==
    LET fd == FilterByTemperature(view3, tr)
    IN  [filtered_data |-> fd, stats |-> Statistics(fd), aggregated_data |-> Aggregate(fd)]

\* The slider keeps the user's value while the arguments it is created with are
\* those of the previous execution and returns its value argument otherwise.
SliderValue(view3) ==
    IF /\ slider_min = ColMin(view3)
       /\ slider_max = ColMax(view3)
       /\ initial_temperature_range = InitialTemperatureRange(view3)
    THEN temperature_range
    ELSE InitialTemperatureRange(view3)

\* the script run with the widgets at dr, sc, si
Rerun(dr, sc, si) ==
    LET view3 == UpstreamView(melted_data, dr, sc, si)
        tr    == SliderValue(view3)
        out   == Derived(view3, tr)
    IN  /\ date_range' = dr
        /\ selected_countries' = sc
        /\ selected_indicator' = si
        /\ slider_min' = ColMin(view3)
        /\ slider_max' = ColMax(view3)
        /\ initial_temperature_range' = InitialTemperatureRange(view3)
        /\ temperature_range' = tr
        /\ filtered_data' = out.filtered_data
        /\ stats' = out.stats
        /\ aggregated_data' = out.aggregated_data
        /\ UNCHANGED <<data, melted_data>>

YearsOf(md) == {Val(y) : y \in {z \in Unique(md, "Year") : ~IsNaN(z)}}

SetMin(S) == CHOOSE m \in S : \A x \in S : m <= x

SetMax(S) == CHOOSE m \in S : \A x \in S : m >= x

\* the first execution: every widget at its default
FirstRun(d) ==
    LET md    == Reshape(d)
        dr    == <<SetMin(YearsOf(md)), SetMax(YearsOf(md))>>
        sc    == {}
        si    == md[1].Indicator
        view3 == UpstreamView(md, dr, sc, si)
        tr    == InitialTemperatureRange(view3)
        out   == Derived(view3, tr)
    IN  /\ data = d
        /\ melted_data = md
        /\ date_range = dr
        /\ selected_countries = sc
        /\ selected_indicator = si
        /\ slider_min = ColMin(view3)
        /\ slider_max = ColMax(view3)
        /\ initial_temperature_range = tr
        /\ temperature_range = tr
        /\ filtered_data = out.filtered_data
        /\ stats = out.stats
        /\ aggregated_data = out.aggregated_data

Init == \E d \in Tables : FirstRun(d)

\* line 34: the user picks a start and an end date
SetDateRange ==
    \E s \in YearsOf(melted_data), e \in YearsOf(melted_data) :
        /\ s <= e
        /\ <<s, e>> # date_range
        /\ Rerun(<<s, e>>, selected_countries, selected_indicator)

\* line 40: the user changes the multiselect
SetCountries ==
    \E sc \in SUBSET Unique(melted_data, "Country") :
        /\ sc # selected_countries
        /\ Rerun(date_range, sc, selected_indicator)

\* line 46: the user changes the selectbox
SetIndicator ==
    \E si \in Unique(melted_data, "Indicator") :
        /\ si # selected_indicator
        /\ Rerun(date_range, selected_countries, si)

\* line 78: the user moves the slider's handles, in steps of 0.1 between its ends
SetTemperatureRange ==
    /\ ~IsNaN(slider_min)
    /\ ~IsNaN(slider_max)
    /\ \E lo \in Val(slider_min)..Val(slider_max), hi \in Val(slider_min)..Val(slider_max) :
        /\ lo <= hi
        /\ <<Num(lo), Num(hi)>> # temperature_range
        /\ LET view3 == UpstreamView(melted_data, date_range, selected_countries,
                                     selected_indicator)
               out   == Derived(view3, <<Num(lo), Num(hi)>>)
           IN  /\ temperature_range' = <<Num(lo), Num(hi)>>
               /\ filtered_data' = out.filtered_data
               /\ stats' = out.stats
               /\ aggregated_data' = out.aggregated_data
               /\ UNCHANGED <<data, melted_data, date_range, selected_countries,
                              selected_indicator, slider_min, slider_max,
                              initial_temperature_range>>

Next == SetDateRange \/ SetCountries \/ SetIndicator \/ SetTemperatureRange

Spec == Init /\ [][Next]_vars

----------------------------------------------------------------------------
(* Claims *)

\* the view of line 47 for the current widget values, stated row by row
UpstreamRows ==
    SelectSeq(melted_data,
              LAMBDA r : /\ ~IsNaN(r.Year)
                         /\ date_range[1] <= Val(r.Year)
                         /\ Val(r.Year) <= date_range[2]
                         /\ r.Country \in selected_countries
                         /\ r.Indicator = selected_indicator)

ValidRows(view) == SelectSeq(view, LAMBDA r : ~IsNaN(r.Temp))

MissingRows(view) == SelectSeq(view, LAMBDA r : IsNaN(r.Temp))

\* C1: the final filtered view is exactly the rows of the long table with
\* start <= Year <= end, Country selected, Indicator equal to the selected one and
\* a non-missing Temperature Change with lo <= value <= hi; no row of it has a
\* missing Temperature Change.
C1_FilteredViewIsConjunction ==
    /\ filtered_data =
         SelectSeq(UpstreamRows,
                   LAMBDA r : /\ ~IsNaN(r.Temp)
                              /\ Val(temperature_range[1]) <= Val(r.Temp)
                              /\ Val(r.Temp) <= Val(temperature_range[2]))
    /\ \A k \in DOMAIN filtered_data : ~IsNaN(filtered_data[k].Temp)

\* a row is left although the date range, the country set and the indicator each
\* exclude a row and a row has a missing Temperature Change
C1_Witness ==
    /\ filtered_data # <<>>
    /\ date_range[1] = date_range[2]
    /\ Unique(melted_data, "Country") \ selected_countries # {}
    /\ Unique(melted_data, "Indicator") # {selected_indicator}
    /\ MissingRows(melted_data) # <<>>

\* C2: with no country selected the final filtered view has no rows.
C2_EmptyCountrySetEmptyView ==
    selected_countries = {} => filtered_data = <<>>

\* no country selected, after the date range and the indicator were changed, and
\* the view before the country filter has rows
C2_Witness ==
    /\ selected_countries = {}
    /\ date_range[1] = date_range[2]
    /\ selected_indicator # melted_data[1].Indicator
    /\ FilterByIndicator(FilterByDate(melted_data, date_range), selected_indicator) # <<>>
    /\ filtered_data = <<>>

\* filter k of the four with the current widget values
ApplyFilter(k, view) ==
    CASE k = 1 -> FilterByDate(view, date_range)
      [] k = 2 -> FilterByCountries(view, selected_countries)
      [] k = 3 -> FilterByIndicator(view, selected_indicator)
      [] k = 4 -> FilterByTemperature(view, temperature_range)

RECURSIVE ApplyInOrder(_, _)
ApplyInOrder(order, view) ==
    IF order = <<>> THEN view
    ELSE ApplyInOrder(Tail(order), ApplyFilter(Head(order), view))

Permutations4 == {p \in [1..4 -> 1..4] : \A i, j \in 1..4 : p[i] = p[j] => i = j}

\* C3: the four filters applied to the long table in any of the 24 orders, with
\* the widget values fixed, give the final filtered view.
C3_FiltersCommute ==
    \A p \in Permutations4 : ApplyInOrder(p, melted_data) = filtered_data

\* every filter alone removes rows, each a different set, and a row stays
C3_Witness ==
    /\ filtered_data # <<>>
    /\ \A k \in 1..4 : Len(ApplyFilter(k, melted_data)) < Len(melted_data)
    /\ \A k \in 1..4 : ApplyFilter(k, melted_data) # filtered_data

\* C4: when the view of line 47 has no valid Temperature Change, the slider is
\* given the ends 0.0 and 1.0 and the value [0.0, 1.0], and the filter uses it.
C4_DefaultBoundsReachSlider ==
    ValidRows(UpstreamRows) = <<>> =>
        /\ slider_min = Num(0)
        /\ slider_max = Num(10)
        /\ initial_temperature_range = <<Num(0), Num(10)>>
        /\ temperature_range = <<Num(0), Num(10)>>

\* C10: when the view of line 47 has a valid Temperature Change, the slider's
\* default is [min, max] of that view's valid values for the current widget
\* values, and the filter at the default keeps exactly that view's valid rows.
C10_DefaultBoundsFromUpstreamView ==
    LET valid == ValidRows(UpstreamRows)
        temps == {Val(valid[k].Temp) : k \in DOMAIN valid}
    IN  valid # <<>> =>
            /\ initial_temperature_range = <<Num(SetMin(temps)), Num(SetMax(temps))>>
            /\ Val(initial_temperature_range[1]) <= Val(initial_temperature_range[2])
            /\ slider_min = initial_temperature_range[1]
            /\ slider_max = initial_temperature_range[2]
            /\ (temperature_range = initial_temperature_range => filtered_data = valid)

\* the slider at a default that is not that of the first execution, over a view
\* with a missing row and two different valid values
C10_Witness ==
    /\ temperature_range = initial_temperature_range
    /\ MissingRows(UpstreamRows) # <<>>
    /\ Val(initial_temperature_range[1]) < Val(initial_temperature_range[2])
    /\ Len(filtered_data) >= 2
    /\ filtered_data = ValidRows(UpstreamRows)
    /\ date_range[1] # date_range[2]

\* C6: when the final view has no valid Temperature Change, each of the five
\* statistics is shown as undefined and the aggregated table is empty.
C6_EmptyStatisticsUndefined ==
    ValidRows(filtered_data) = <<>> =>
        /\ \A f \in {"mean", "median", "std", "max", "min"} : stats[f].text = "undefined"
        /\ DOMAIN aggregated_data = {}

\* C9: the long table has one row per (record, value column) pair, records times
\* value columns rows in all, each with its record's metadata.
C9_ReshapeRowCount ==
    /\ Len(melted_data) = Len(data) * Len(ValueColumns)
    /\ \A i \in DOMAIN data : \A c \in DOMAIN ValueColumns :
          LET rows == {k \in DOMAIN melted_data :
                          /\ melted_data[k].ObjectId = data[i].ObjectId
                          /\ melted_data[k].Year = ExtractYear(ValueColumns[c])}
          IN  /\ Cardinality(rows) = 1
              /\ \A k \in rows : /\ melted_data[k].Country = data[i].Country
                                 /\ melted_data[k].Indicator = data[i].Indicator
                                 /\ melted_data[k].Temp = ToNumeric(data[i].cells[c])

\* a table of two records with a non-numeric cell, after the widgets were used
C9_Witness ==
    /\ Len(data) >= 2
    /\ \E i \in DOMAIN data : data[i].cells[1] = NACell
    /\ MissingRows(melted_data) # <<>>
    /\ selected_countries # {}

----------------------------------------------------------------------------
(* The end-to-end table: Albania 1.0, NA and Algeria 2.0, 3.0 *)

ScenarioIndicator == "Temperature change"

ScenarioTable ==
    << RawRecord(1, "Albania", ScenarioIndicator,
                 << <<"1", ".", "0">>, NACell >>),
       RawRecord(2, "Algeria", ScenarioIndicator,
                 << <<"2", ".", "0">>, <<"3", ".", "0">> >>) >>

InitScenario == FirstRun(ScenarioTable)

\* the selectbox of line 46 has a single option here and cannot change
NextScenario == SetDateRange \/ SetCountries \/ SetTemperatureRange

SpecScenario == InitScenario /\ [][NextScenario]_vars

----------------------------------------------------------------------------
(* The aggregator of lines 116-126 on any view of the long table *)

\* view without its row k
DropRow(view, k) == SubSeq(view, 1, k - 1) \o SubSeq(view, k + 1, Len(view))

\* the aggregator handed the whole long table, the widgets at their defaults
InitAgg ==
    \E d \in Tables :
        LET md == Reshape(d)
            tr == InitialTemperatureRange(md)
        IN  /\ data = d
            /\ melted_data = md
            /\ date_range = <<SetMin(YearsOf(md)), SetMax(YearsOf(md))>>
            /\ selected_countries = Unique(md, "Country")
            /\ selected_indicator = md[1].Indicator
            /\ slider_min = ColMin(md)
            /\ slider_max = ColMax(md)
            /\ initial_temperature_range = tr
            /\ temperature_range = tr
            /\ filtered_data = md
            /\ stats = Statistics(md)
            /\ aggregated_data = Aggregate(md)

\* the aggregator handed a view one row narrower
ApplyAggregator ==
    \E k \in DOMAIN filtered_data :
        /\ filtered_data' = DropRow(filtered_data, k)
        /\ aggregated_data' = Aggregate(filtered_data')
        /\ UNCHANGED <<data, melted_data, date_range, selected_countries,
                       selected_indicator, slider_min, slider_max,
                       initial_temperature_range, temperature_range, stats>>

NextAgg == ApplyAggregator

SpecAgg == InitAgg /\ [][NextAgg]_vars

----------------------------------------------------------------------------
(* Claims on the aggregator *)

Unmapped(r) == r.Country \notin DOMAIN actual_region_mapping

\* the (Group, Year) pairs of the final view whose country is in the mapping
MappedPairs ==
    {<<<<actual_region_mapping[filtered_data[k].Country]>>, filtered_data[k].Year>> :
        k \in {j \in DOMAIN filtered_data : ~Unmapped(filtered_data[j])}}

\* C8, as claimed: every row of the final view whose country is not in the
\* mapping has an entry (missing Group, Year) in the aggregated table, and the
\* table has one entry per (Group, Year) pair of the view.
C8_UnmappedGroupedTogether ==
    /\ \A k \in DOMAIN filtered_data :
          Unmapped(filtered_data[k]) =>
              <<NaN, filtered_data[k].Year>> \in DOMAIN aggregated_data
    /\ \A k \in DOMAIN filtered_data :
          ~Unmapped(filtered_data[k]) =>
              <<MapRegion(filtered_data[k].Country), filtered_data[k].Year>>
                  \in DOMAIN aggregated_data

\* C8, amended: the aggregated table has an entry exactly for the (Group, Year)
\* pairs of the rows whose country is in the mapping; the rows of a country
\* outside the mapping have no entry.
C8_UnmappedDropped ==
    /\ DOMAIN aggregated_data = MappedPairs
    /\ \A key \in DOMAIN aggregated_data : ~IsNaN(key[1])

\* the final view holds rows of a country outside the mapping and of one inside
C8_Witness ==
    /\ \E k \in DOMAIN filtered_data : Unmapped(filtered_data[k])
    /\ \E k \in DOMAIN filtered_data : ~Unmapped(filtered_data[k])
    /\ DOMAIN aggregated_data # {}

\* the positions of the view's rows in bucket key
Bucket(key) ==
    {k \in DOMAIN filtered_data :
        /\ MapRegion(filtered_data[k].Country) = key[1]
        /\ filtered_data[k].Year = key[2]}

ValidOf(S) == {k \in S : ~IsNaN(filtered_data[k].Temp)}

RECURSIVE SumTemps(_)
SumTemps(S) ==
    IF S = {} THEN 0
    ELSE LET k == CHOOSE x \in S : TRUE
         IN  Val(filtered_data[k].Temp) + SumTemps(S \ {k})

----------------------------------------------------------------------------
(* The end-to-end scenario *)

ScenarioSelected ==
    /\ data = ScenarioTable
    /\ selected_countries = {"Albania", "Algeria"}
    /\ selected_indicator = ScenarioIndicator
    /\ date_range = <<2020, 2021>>
    /\ temperature_range = initial_temperature_range

ScenarioStatistics ==
    /\ stats.mean = Fmt(<<20, 1>>)
    /\ stats.min = Fmt(Num(10))
    /\ stats.max = Fmt(Num(30))

\* C5, as claimed: the final view has 4 rows, one with a missing value; the
\* aggregated table has (Europe,2020)=1.0, (Europe,2021)=no value,
\* (Africa,2020)=2.0, (Africa,2021)=3.0; mean 2.0, min 1.0, max 3.0.
C5_ScenarioFourRows ==
    ScenarioSelected =>
        /\ Len(filtered_data) = 4
        /\ Len(MissingRows(filtered_data)) = 1
        /\ DOMAIN aggregated_data =
              {<<<<"Europe">>, Num(2020)>>, <<<<"Europe">>, Num(2021)>>,
               <<<<"Africa">>, Num(2020)>>, <<<<"Africa">>, Num(2021)>>}
        /\ aggregated_data[<<<<"Europe">>, Num(2020)>>] = <<10, 1>>
        /\ aggregated_data[<<<<"Europe">>, Num(2021)>>] = NaN
        /\ aggregated_data[<<<<"Africa">>, Num(2020)>>] = <<20, 1>>
        /\ aggregated_data[<<<<"Africa">>, Num(2021)>>] = <<30, 1>>
        /\ ScenarioStatistics

\* C5, amended: the final view has the 3 rows with a value and not the row with
\* the missing one; the aggregated table has (Europe,2020)=1.0, (Africa,2020)=2.0,
\* (Africa,2021)=3.0 and no entry for (Europe,2021); mean 2.0, min 1.0, max 3.0.
C5_ScenarioThreeRows ==
    ScenarioSelected =>
        /\ Len(filtered_data) = 3
        /\ MissingRows(filtered_data) = <<>>
        /\ initial_temperature_range = <<Num(10), Num(30)>>
        /\ DOMAIN aggregated_data =
              {<<<<"Europe">>, Num(2020)>>,
               <<<<"Africa">>, Num(2020)>>, <<<<"Africa">>, Num(2021)>>}
        /\ aggregated_data[<<<<"Europe">>, Num(2020)>>] = <<10, 1>>
        /\ aggregated_data[<<<<"Africa">>, Num(2020)>>] = <<20, 1>>
        /\ aggregated_data[<<<<"Africa">>, Num(2021)>>] = <<30, 1>>
        /\ ScenarioStatistics

\* the scenario's selection is made and the script has run on it
C5_Witness ==
    /\ ScenarioSelected
    /\ filtered_data # <<>>
    /\ Len(melted_data) = 4
    /\ Len(MissingRows(melted_data)) = 1

====
